---- MODULE Spec2Model ----
(***************************************************************************)
(* A model of the RadioWave web app (Ruslan-rus88/radio):                  *)
(*   js/favorites.js  the favourites store over localStorage               *)
(*   js/app.js        the view orchestrator (search mode / favourites mode)*)
(*   js/player.js     the audio player (retry, status)                     *)
(*   js/dialog.js     the promise-based language picker                    *)
(*   api.js           RadioAPI.search (merge of name and tag search)       *)
(* Each component has its own specification over the shared variables; a   *)
(* specification leaves the variables of the other components unchanged.   *)
(***************************************************************************)
EXTENDS Integers, Sequences, FiniteSets, TLC

VARIABLES
    \* ---- favorites.js ----
    localStorage,   \* the three keys of window.localStorage the store uses
    loaded,         \* the page's scripts have been evaluated
    favIds,         \* Set of ids, in insertion order
    extraMap,       \* { id: station object }, in property order
    nLoads,         \* history: number of page loads so far (saturating)
    ev,             \* history: the event (operation) handled by the last step
    \* ---- app.js ----
    booted, savedApiPool, displayedStations, activeLanguage, searchQuery,
    showingFavourites, searchDebounce, inFlight, playlist,
    sinceInput,     \* history: ms since the last input event (saturating)
    lastInput,      \* history: value of the last input event
    burstFired,     \* history: searches the debounce timer started in this burst
    cleared,        \* history: clear/heart clicked and nothing typed since
    \* ---- player.js ----
    currentStation, isPlaying, retryCount, status,
    attempts,       \* the pending promises of audio.play(): [kind, call]
    retryTimers,    \* the pending setTimeout(..., 1500) of the catch handler
    streaming,      \* the audio element is playing its stream
    pauseEvent,     \* a 'pause' event of the audio element awaits its handler
    nPlays,         \* history: calls of play() that loaded a station
    nToggles,       \* history: calls of togglePlay() that called audio.play()
    nAttempts,      \* history: audio.play() calls caused by each play() call
    started,        \* history: an attempt succeeded since the last play()
    wakeSupported,  \* 'wakeLock' in navigator
    wakeLock,       \* _wakeLock: 0 is null, n the n-th sentinel granted
    wakeRequests,   \* pending navigator.wakeLock.request('screen') promises
    sentinels,      \* the sentinels granted: "held", "releasing", "released"
    visible,        \* document.visibilityState === 'visible'
    \* ---- dialog.js ----
    dlgResolve,     \* _resolve: 0 is null, n the resolve function of promise n
    modalHidden,    \* modal().hidden
    promises,       \* the promises show() returned: [st, value, calls]
    \* ---- RadioAPI.search ----
    sQuery, sLimit, \* the arguments of search()
    sNameRes,       \* the outcome of the name search (or of the browse request)
    sTagRes,        \* the outcome of the tag search
    sResult,        \* what search() returned
    sDone,          \* search() has returned
    \* ---- RadioAPI.init / get ----
    baseUrl,        \* the server requests are sent to
    initState,      \* init(): "idle", "running", "done" or "rejected"
    initPos,        \* the index in SERVERS of the server init() is waiting for
    contacted,      \* history: the servers init() sent a stats request to
    outcomes,       \* history: how each of those requests settled
    getUrls         \* history: the baseUrl each get() used

favVars    == <<localStorage, loaded, favIds, extraMap, nLoads>>
appVars    == <<booted, savedApiPool, displayedStations, activeLanguage,
                searchQuery, showingFavourites, searchDebounce, inFlight,
                playlist, sinceInput, lastInput, burstFired, cleared>>
wakeVars   == <<wakeSupported, wakeLock, wakeRequests, sentinels, visible>>
playerVars == <<currentStation, isPlaying, retryCount, status, attempts,
                retryTimers, streaming, pauseEvent, nPlays, nToggles,
                nAttempts, started, wakeVars>>
dialogVars == <<dlgResolve, modalHidden, promises>>
searchVars == <<sQuery, sLimit, sNameRes, sTagRes, sResult, sDone>>
apiVars    == <<baseUrl, initState, initPos, contacted, outcomes, getUrls>>
vars       == <<favVars, appVars, playerVars, dialogVars, searchVars, apiVars, ev>>

(***************************************************************************)
(* Generic helpers                                                         *)
(***************************************************************************)
Range(s) == {s[i] : i \in 1..Len(s)}

NoDup(s) == \A i, j \in 1..Len(s) : i # j => s[i] # s[j]

SeqsUpTo(S, n) == UNION {[1..k -> S] : k \in 0..n}

Min(a, b) == IF a < b THEN a ELSE b

\* A missing property / an undefined argument
Absent == "absent"

(***************************************************************************)
(* favorites.js                                                            *)
(***************************************************************************)
\* A station object is [id, url, favLanguage]; favLanguage = Absent when the
\* object has no such property (API results, legacy stored entries).
Station(id, url, lang) == [id |-> id, url |-> url, favLanguage |-> lang]

\* A null / missing station argument
NoStation == Station(Absent, Absent, Absent)

D1 == "api-96683d44"
D2 == "api-c004dd47"
D3 == "api-32fc6c88"
D4 == "api-9606f727"

\* DEFAULT_EXTRA, as the sequence of its (key, object) properties
DEFAULT_EXTRA ==
    << [key |-> D1, obj |-> Station(D1, "https://abs.zaycev.fm/relax128k", "Russian")],
       [key |-> D2, obj |-> Station(D2, "https://abs.zaycev.fm/rock128k", "Russian")],
       [key |-> D3, obj |-> Station(D3, "https://abs.zaycev.fm/pop128k", "Russian")],
       [key |-> D4, obj |-> Station(D4, "http://wdr-1live-live.icecast.wdr.de", "German")] >>

\* Object.keys(DEFAULT_EXTRA)
DEFAULT_IDS == [i \in 1..Len(DEFAULT_EXTRA) |-> DEFAULT_EXTRA[i].key]

\* ---- a JS Set of strings, kept as the sequence of its insertion order ----
SetHas(set, id) == id \in Range(set)
SetAdd(set, id) == IF SetHas(set, id) THEN set ELSE Append(set, id)
SetDelete(set, id) == SelectSeq(set, LAMBDA x : x # id)

\* new Set(array): duplicates keep their first position
RECURSIVE NewSet(_)
NewSet(arr) ==
    IF arr = <<>> THEN <<>>
    ELSE SetAdd(NewSet(SubSeq(arr, 1, Len(arr) - 1)), arr[Len(arr)])

\* ---- a JS object used as a map, kept as the sequence of its properties ----
MapHas(map, k) == \E i \in 1..Len(map) : map[i].key = k
MapGet(map, k) == map[CHOOSE i \in 1..Len(map) : map[i].key = k].obj
\* map[k] = obj: an existing property keeps its position, a new one is appended
MapPut(map, k, obj) ==
    IF MapHas(map, k)
    THEN [i \in 1..Len(map) |-> IF map[i].key = k THEN [key |-> k, obj |-> obj] ELSE map[i]]
    ELSE Append(map, [key |-> k, obj |-> obj])
\* delete map[k]
MapDelete(map, k) == SelectSeq(map, LAMBDA e : e.key # k)

\* ---- persist helpers: a key is [has, val]; has = FALSE is getItem() = null.
\* The storage works: setItem succeeds and the stored text is valid JSON, so the
\* catch branches of the helpers are not taken. ----
NoItem == [has |-> FALSE, val |-> <<>>]
Item(v) == [has |-> TRUE, val |-> v]

loadIds(ls) == IF ls.ids.has THEN NewSet(ls.ids.val) ELSE <<>>

saveIds(ls, set) == [ls EXCEPT !.ids = Item(set)]

loadExtra(ls) == IF ls.extra.has THEN ls.extra.val ELSE <<>>

saveExtra(ls, map) == [ls EXCEPT !.extra = Item(map)]

\* DEFAULT_IDS.forEach(id => { existingExtra[id] = DEFAULT_EXTRA[id]; existingIds.add(id) })
RECURSIVE MergeDefaults(_, _, _)
MergeDefaults(ext, ids, n) ==
    IF n = 0 THEN [extra |-> ext, ids |-> ids]
    ELSE LET m == MergeDefaults(ext, ids, n - 1)
         IN [extra |-> MapPut(m.extra, DEFAULT_EXTRA[n].key, DEFAULT_EXTRA[n].obj),
             ids   |-> SetAdd(m.ids, DEFAULT_IDS[n])]

\* mutant: the defaults replace what is stored instead of being merged into it
seedDefaults_Replace(ls) ==
    IF ls.seeded THEN ls
    ELSE LET m  == MergeDefaults(<<>>, <<>>, Len(DEFAULT_IDS))
             l1 == saveExtra(ls, m.extra)
             l2 == saveIds(l1, m.ids)
         IN [l2 EXCEPT !.seeded = TRUE]

seedDefaults(ls) ==
    IF ls.seeded THEN ls
    ELSE LET m  == MergeDefaults(loadExtra(ls), loadIds(ls), Len(DEFAULT_IDS))
             l1 == saveExtra(ls, m.extra)
             l2 == saveIds(l1, m.ids)
         IN [l2 EXCEPT !.seeded = TRUE]

has(id) == SetHas(favIds, id)

isDefault(id) == id \in Range(DEFAULT_IDS)

\* prune(): the extraMap without the entries that are no favourites
pruned(map, ids) == SelectSeq(map, LAMBDA e : SetHas(ids, e.key))

\* Object.values(map).filter(s => ids.has(s.id)).map(s => ({favLanguage: 'other', ...s}))
SavedStations(map, ids) ==
    LET vals == [i \in 1..Len(map) |-> map[i].obj]
        kept == SelectSeq(vals, LAMBDA s : SetHas(ids, s.id))
    IN [i \in 1..Len(kept) |->
          IF kept[i].favLanguage = Absent
          THEN [kept[i] EXCEPT !.favLanguage = "other"] ELSE kept[i]]

getSavedStations == SavedStations(extraMap, favIds)

getAll == favIds

\* The state toggle(id, stationObj, favLanguage) leaves: [favIds, extraMap, ls].
\* stationObj = NoStation is a missing / null argument.
\* mutant: a removal deletes the station object in memory but does not save the map
toggle_NoSaveExtra(id, stationObj, favLanguage) ==
    IF has(id)
    THEN IF isDefault(id)
         THEN [favIds |-> favIds, extraMap |-> extraMap, ls |-> localStorage]
         ELSE LET ids == SetDelete(favIds, id)
                  map == MapDelete(extraMap, id)
              IN [favIds |-> ids, extraMap |-> map, ls |-> saveIds(localStorage, ids)]
    ELSE LET ids == SetAdd(favIds, id)
             lang == IF favLanguage \in {Absent, ""} THEN "other" ELSE favLanguage
             map == IF stationObj # NoStation
                    THEN MapPut(extraMap, id, [stationObj EXCEPT !.favLanguage = lang])
                    ELSE extraMap
             l1  == IF stationObj # NoStation THEN saveExtra(localStorage, map) ELSE localStorage
         IN [favIds |-> ids, extraMap |-> map, ls |-> saveIds(l1, ids)]

\* mutant: toggle without the guard that makes the default stations permanent
toggle_NoGuard(id, stationObj, favLanguage) ==
    IF has(id)
    THEN LET ids == SetDelete(favIds, id)
             map == MapDelete(extraMap, id)
             l1  == IF MapHas(extraMap, id) THEN saveExtra(localStorage, map) ELSE localStorage
         IN [favIds |-> ids, extraMap |-> map, ls |-> saveIds(l1, ids)]
    ELSE LET ids == SetAdd(favIds, id)
             lang == IF favLanguage \in {Absent, ""} THEN "other" ELSE favLanguage
             map == IF stationObj # NoStation
                    THEN MapPut(extraMap, id, [stationObj EXCEPT !.favLanguage = lang])
                    ELSE extraMap
             l1  == IF stationObj # NoStation THEN saveExtra(localStorage, map) ELSE localStorage
         IN [favIds |-> ids, extraMap |-> map, ls |-> saveIds(l1, ids)]

toggle(id, stationObj, favLanguage) ==
    IF has(id)
    THEN IF isDefault(id)
         THEN [favIds |-> favIds, extraMap |-> extraMap, ls |-> localStorage]
         ELSE LET ids == SetDelete(favIds, id)
                  map == MapDelete(extraMap, id)
                  l1  == IF MapHas(extraMap, id) THEN saveExtra(localStorage, map)
                         ELSE localStorage
              IN [favIds |-> ids, extraMap |-> map, ls |-> saveIds(l1, ids)]
    ELSE LET ids == SetAdd(favIds, id)
             lang == IF favLanguage \in {Absent, ""} THEN "other" ELSE favLanguage
             map == IF stationObj # NoStation
                    THEN MapPut(extraMap, id, [stationObj EXCEPT !.favLanguage = lang])
                    ELSE extraMap
             l1  == IF stationObj # NoStation THEN saveExtra(localStorage, map) ELSE localStorage
         IN [favIds |-> ids, extraMap |-> map, ls |-> saveIds(l1, ids)]

\* Evaluation of favorites.js: seedDefaults(); favIds = loadIds();
\* extraMap = loadExtra(); prune().  [favIds, extraMap, ls, seeded]
FavoritesModule(ls) ==
    LET l1  == seedDefaults(ls)
        ids == loadIds(l1)
        raw == loadExtra(l1)
        map == pruned(raw, ids)
        l2  == IF map # raw THEN saveExtra(l1, map) ELSE l1
    IN [favIds |-> ids, extraMap |-> map, ls |-> l2, seeded |-> l1]


(***************************************************************************)
(* RadioAPI.search (api.js)                                                *)
(***************************************************************************)
\* Text is a sequence of characters, so that trim() is computed
RECURSIVE TrimStart(_)
TrimStart(s) == IF s # <<>> /\ Head(s) = " " THEN TrimStart(Tail(s)) ELSE s

RECURSIVE TrimEnd(_)
TrimEnd(s) ==
    IF s # <<>> /\ s[Len(s)] = " " THEN TrimEnd(SubSeq(s, 1, Len(s) - 1)) ELSE s

\* String.prototype.trim
Trim(s) == TrimEnd(TrimStart(s))

\* A raw station of the directory API: [stationuuid, url_resolved, url]
Raw(uuid, resolved, url) == [stationuuid |-> uuid, url_resolved |-> resolved, url |-> url]

\* `api-${s.stationuuid}`
ApiId(uuid) ==
    CASE uuid = "x" -> "api-x"
      [] uuid = "y" -> "api-y"
      [] uuid = "z" -> "api-z"
      [] uuid = "w" -> "api-w"

\* normalize(s): url is s.url_resolved || s.url || ''; no favLanguage property
normalize(s) ==
    Station(ApiId(s.stationuuid),
            IF s.url_resolved # "" THEN s.url_resolved ELSE s.url,
            Absent)

\* The outcome of one get(): fulfilled with an array, or rejected
Fulfilled(v) == [ok |-> TRUE, value |-> v]
Rejected == [ok |-> FALSE, value |-> <<>>]

\* MergeDedup without the filter on the tag matches
MergeDedup_NoFilter(byName, byTag) ==
    byName \o byTag

\* [...byName, ...byTag.filter(s => !seen.has(s.stationuuid))]
MergeDedup(byName, byTag) ==
    LET seen == {byName[i].stationuuid : i \in 1..Len(byName)}
    IN byName \o SelectSeq(byTag, LAMBDA s : s.stationuuid \notin seen)

\* raw.map(normalize).filter(s => s.url)
NormalizeAll(raw) ==
    SelectSeq([i \in 1..Len(raw) |-> normalize(raw[i])], LAMBDA s : s.url # "")

\* search({query, language, limit}) given the outcomes of its requests: with a
\* query, nameRes and tagRes are the name search and the tag search; without
\* one, nameRes is the single browse request.  [ok, value]: ok = FALSE is a throw.
search(query, limit, nameRes, tagRes) ==
    IF Trim(query) # <<>>
    THEN LET byName == IF nameRes.ok THEN nameRes.value ELSE <<>>
             byTag  == IF tagRes.ok THEN tagRes.value ELSE <<>>
         IN Fulfilled(NormalizeAll(MergeDedup(byName, byTag)))
    ELSE IF nameRes.ok THEN Fulfilled(NormalizeAll(nameRes.value)) ELSE Rejected

(***************************************************************************)
(* app.js                                                                  *)
(***************************************************************************)
DEBOUNCE_MS == 320

APP_LIMIT == 60

\* showFavourites(): the pool it displays, for the favourites (map, ids) and the
\* active language tab
\* mutant: the language tab is ignored
FavouritesPool_NoFilter(map, ids, lang) ==
    SelectSeq(SavedStations(map, ids), LAMBDA s : SetHas(ids, s.id))

FavouritesPool(map, ids, lang) ==
    LET pool == SelectSeq(SavedStations(map, ids), LAMBDA s : SetHas(ids, s.id))
    IN IF lang # "all"
       THEN SelectSeq(pool, LAMBDA s :
                (IF s.favLanguage \in {Absent, ""} THEN "other" ELSE s.favLanguage) = lang)
       ELSE pool

\* showFavourites() with activeLanguage = lang
showFavourites(map, ids, lang) ==
    /\ savedApiPool' = SavedStations(map, ids)
    /\ displayedStations' = FavouritesPool(map, ids, lang)
    /\ playlist' = displayedStations'

enterFavouritesMode ==
    /\ showingFavourites' = TRUE
    /\ activeLanguage' = "all"
    /\ showFavourites(extraMap, favIds, "all")

\* runApiSearch(query) up to its await, with activeLanguage = lang
runApiSearch(query, lang) ==
    /\ inFlight' = Append(inFlight,
           [query |-> query, language |-> IF lang # "all" THEN lang ELSE ""])
    /\ UNCHANGED <<savedApiPool, displayedStations, playlist>>

(***************************************************************************)
(* Initial values of each component's variables                            *)
(***************************************************************************)
\* Bounds of the favourites model
MaxStored == 2      \* entries a first visit may already find stored
MaxLoads  == 2      \* saturation of the page-load counter

X == "api-x"
Y == "api-y"

\* Stored id lists a first visit may find (written by an earlier saveIds)
InitIdLists == {s \in SeqsUpTo({X, Y, D1}, MaxStored) : NoDup(s)}

\* Stored station maps a first visit may find; legacy entries have no favLanguage
InitEntries ==
    { [key |-> X,  obj |-> Station(X, "http://x", Absent)],
      [key |-> X,  obj |-> Station(X, "http://x", "English")],
      [key |-> D1, obj |-> Station(D1, "https://abs.zaycev.fm/relax128k", "other")] }

InitExtraMaps ==
    {m \in SeqsUpTo(InitEntries, MaxStored) :
        \A i, j \in 1..Len(m) : i # j => m[i].key # m[j].key}

FirstVisitStorage ==
    { [ids |-> i, extra |-> e, seeded |-> FALSE] :
        i \in {NoItem} \cup {Item(s) : s \in InitIdLists},
        e \in {NoItem} \cup {Item(m) : m \in InitExtraMaps} }

EmptyStorage == [ids |-> NoItem, extra |-> NoItem, seeded |-> FALSE]

NoEvent == [type |-> "init"]

FavInit ==
    /\ localStorage \in FirstVisitStorage
    /\ loaded = FALSE
    /\ favIds = <<>>
    /\ extraMap = <<>>
    /\ nLoads = 0

AppInit ==
    /\ booted = FALSE
    /\ savedApiPool = <<>>
    /\ displayedStations = <<>>
    /\ activeLanguage = "all"
    /\ searchQuery = <<>>
    /\ showingFavourites = FALSE
    /\ searchDebounce = [armed |-> FALSE, left |-> 0]
    /\ inFlight = <<>>
    /\ playlist = <<>>
    /\ sinceInput = DEBOUNCE_MS
    /\ lastInput = <<>>
    /\ burstFired = 0
    /\ cleared = FALSE

PlayerInit ==
    /\ currentStation = NoStation
    /\ isPlaying = FALSE
    /\ retryCount = 0
    /\ status = "idle"
    /\ attempts = {}
    /\ retryTimers = {}
    /\ streaming = FALSE
    /\ pauseEvent = FALSE
    /\ nPlays = 0
    /\ nToggles = 0
    /\ nAttempts = <<>>
    /\ started = FALSE
    /\ wakeLock = 0
    /\ wakeRequests = 0
    /\ sentinels = <<>>
    /\ visible = TRUE

DialogInit ==
    /\ dlgResolve = 0
    /\ modalHidden = TRUE
    /\ promises = <<>>

\* api.js: the community servers (de1, nl1, at1)
SERVERS == <<"de1", "nl1", "at1">>

ApiInit ==
    /\ baseUrl = SERVERS[1]
    /\ initState = "idle"
    /\ initPos = 0
    /\ contacted = <<>>
    /\ outcomes = <<>>
    /\ getUrls = <<>>

SearchInit ==
    /\ sQuery = <<>>
    /\ sLimit = 0
    /\ sNameRes = Rejected
    /\ sTagRes = Rejected
    /\ sResult = Rejected
    /\ sDone = FALSE

(***************************************************************************)
(* SpecFav: the favourites store across page loads                         *)
(***************************************************************************)
ToggleIds == Range(DEFAULT_IDS) \cup {X, Y}

ToggleObjs == {NoStation, Station(X, "http://x", Absent), Station(Y, "http://y", "Russian")}

ToggleLangs == {Absent, "English", "other"}

\* A page load or reload: the memory is rebuilt from localStorage
PageLoad ==
    /\ LET r == FavoritesModule(localStorage)
       IN /\ favIds' = r.favIds
          /\ extraMap' = r.extraMap
          /\ localStorage' = r.ls
          \* history: localStorage as seedDefaults found it and as it left it
          /\ ev' = [type |-> "load", before |-> localStorage, seeded |-> r.seeded]
    /\ loaded' = TRUE
    /\ nLoads' = Min(nLoads + 1, MaxLoads)
    /\ UNCHANGED <<appVars, playerVars, dialogVars, searchVars, apiVars>>

\* Favorites.toggle(id, stationObj, favLanguage)
Toggle(id, stationObj, favLanguage) ==
    /\ loaded
    /\ LET r == toggle(id, stationObj, favLanguage)
       IN /\ favIds' = r.favIds
          /\ extraMap' = r.extraMap
          /\ localStorage' = r.ls
    /\ ev' = [type |-> "toggle", id |-> id]
    /\ UNCHANGED <<loaded, nLoads,
                   appVars, playerVars, dialogVars, searchVars, apiVars>>

InitFav ==
    /\ FavInit /\ AppInit /\ PlayerInit /\ wakeSupported = FALSE /\ DialogInit /\ ApiInit /\ SearchInit
    /\ ev = NoEvent

NextFav ==
    \/ PageLoad
    \/ \E id \in ToggleIds, o \in ToggleObjs, l \in ToggleLangs : Toggle(id, o, l)

SpecFav == InitFav /\ [][NextFav]_vars

\* C4: default stations are permanent. From a first visit, after any toggles and
\* page reloads every default id is a favourite, and a toggle of a default id
\* that is a favourite changes neither favIds, extraMap nor localStorage.
C4_DefaultsPermanent ==
    [][ /\ loaded' => \A d \in Range(DEFAULT_IDS) : SetHas(favIds', d)
        /\ (ev'.type = "toggle" /\ isDefault(ev'.id) /\ has(ev'.id))
              => UNCHANGED <<favIds, extraMap, localStorage>> ]_vars

\* A default id was toggled after a reload, with another favourite present
C4_Witness ==
    /\ ev.type = "toggle" /\ isDefault(ev.id)
    /\ nLoads = MaxLoads
    /\ has(X)

\* C5: favourites persist across reloads. After every toggle the stored id list
\* is the in-memory favourite set and the stored map is the in-memory extraMap;
\* a reload changes neither has(id), for any id, nor getSavedStations().
C5_PersistAcrossReloads ==
    [][ /\ loaded' => /\ localStorage'.ids = Item(favIds')
                      /\ localStorage'.extra = Item(extraMap')
        /\ (loaded /\ ev'.type = "load")
              => /\ \A id \in ToggleIds : SetHas(favIds', id) = SetHas(favIds, id)
                 /\ SavedStations(extraMap', favIds') = SavedStations(extraMap, favIds) ]_vars

\* A reload after a station was added with its station object
C5_Witness ==
    /\ ev.type = "load" /\ nLoads = MaxLoads
    /\ has(Y) /\ MapHas(extraMap, Y)
    /\ Len(getSavedStations) > Len(DEFAULT_IDS)

MaxQueryLen == 2    \* characters of a typed query
MaxInFlight == 1    \* API searches awaiting their response
TickMs      == 160  \* granularity of the passage of time

Chars == {" ", "a"}

InputValues == SeqsUpTo(Chars, MaxQueryLen)

\* The language tabs clicked: data-lang of the .lang-tabs__btn buttons
\* (the English tab is handled as the German one)
LangTabs == {"all", "Russian", "German", "other"}

\* The answers of the language dialog: data-lang of the .modal__option buttons
DialogLangs == {"German", "other"}

\* What the directory API may answer to one request of the app
RX == Raw("x", "http://x", "")

AppResponses == {Rejected} \cup {Fulfilled(v) : v \in {<<>>, <<RX>>}}

\* An event of the app: what was handled, and whether it called runApiSearch
Event(type, searched, query, language, tab, wasFav) ==
    [type |-> type, searched |-> searched, query |-> query,
     language |-> language, tab |-> tab, wasFav |-> wasFav]

Quiet(type) == Event(type, FALSE, <<>>, "", "", showingFavourites)

Searched(type, query, lang, tab) ==
    Event(type, TRUE, query, IF lang # "all" THEN lang ELSE "", tab, showingFavourites)

\* DOMContentLoaded: boot(), then updateFavBadge()
Boot ==
    /\ ~booted
    /\ booted' = TRUE
    /\ enterFavouritesMode
    /\ ev' = Quiet("boot")
    /\ UNCHANGED <<searchQuery, searchDebounce, inFlight,
                   sinceInput, lastInput, burstFired, cleared>>
    /\ UNCHANGED <<favVars, playerVars, dialogVars, searchVars, apiVars>>

\* The input handler of the search box, for the value typed
InputEvent(value) ==
    /\ booted
    /\ searchQuery' = value
    /\ IF Trim(value) = <<>>
       THEN \* clearTimeout; search cleared: return to favourites
            /\ searchDebounce' = [armed |-> FALSE, left |-> 0]
            /\ enterFavouritesMode
       ELSE \* clearTimeout; leaveFavouritesMode() if showing; setTimeout(..., 320)
            /\ showingFavourites' = FALSE
            /\ activeLanguage' = IF showingFavourites THEN "all" ELSE activeLanguage
            /\ searchDebounce' = [armed |-> TRUE, left |-> DEBOUNCE_MS]
            /\ UNCHANGED <<savedApiPool, displayedStations, playlist>>
    /\ sinceInput' = 0
    /\ lastInput' = value
    /\ burstFired' = IF sinceInput < DEBOUNCE_MS THEN burstFired ELSE 0
    /\ cleared' = IF Trim(value) # <<>> THEN FALSE ELSE cleared
    /\ ev' = Quiet("input")
    /\ UNCHANGED <<booted, inFlight>>
    /\ UNCHANGED <<favVars, playerVars, dialogVars, searchVars, apiVars>>

\* Click on the clear button of the search box
ClearClick ==
    /\ booted
    /\ searchQuery' = <<>>
    /\ enterFavouritesMode
    /\ cleared' = TRUE
    /\ ev' = Quiet("clear")
    /\ UNCHANGED <<booted, searchDebounce, inFlight, sinceInput, lastInput, burstFired>>
    /\ UNCHANGED <<favVars, playerVars, dialogVars, searchVars, apiVars>>

\* Click on the header heart button
HeartClick ==
    /\ booted
    /\ searchQuery' = <<>>
    /\ enterFavouritesMode
    /\ cleared' = TRUE
    /\ ev' = Quiet("heart")
    /\ UNCHANGED <<booted, searchDebounce, inFlight, sinceInput, lastInput, burstFired>>
    /\ UNCHANGED <<favVars, playerVars, dialogVars, searchVars, apiVars>>

\* Click on a language tab
LangTabClick(tab) ==
    /\ booted
    /\ IF showingFavourites
       THEN /\ activeLanguage' = tab
            /\ showFavourites(extraMap, favIds, tab)
            /\ ev' = Event("tab", FALSE, <<>>, "", tab, TRUE)
            /\ UNCHANGED <<showingFavourites, inFlight>>
       ELSE IF Trim(searchQuery) # <<>>
       THEN /\ Len(inFlight) < MaxInFlight
            /\ activeLanguage' = tab
            /\ runApiSearch(Trim(searchQuery), tab)
            /\ ev' = Searched("tab", Trim(searchQuery), tab, tab)
            /\ UNCHANGED showingFavourites
       ELSE /\ enterFavouritesMode
            /\ ev' = Event("tab", FALSE, <<>>, "", tab, FALSE)
            /\ UNCHANGED inFlight
    /\ UNCHANGED <<booted, searchQuery, searchDebounce,
                   sinceInput, lastInput, burstFired, cleared>>
    /\ UNCHANGED <<favVars, playerVars, dialogVars, searchVars, apiVars>>

\* The debounce timer fires: () => runApiSearch(searchQuery.trim())
DebounceFire ==
    /\ booted
    /\ searchDebounce.armed /\ searchDebounce.left = 0
    /\ Len(inFlight) < MaxInFlight
    /\ searchDebounce' = [armed |-> FALSE, left |-> 0]
    /\ runApiSearch(Trim(searchQuery), activeLanguage)
    /\ burstFired' = burstFired + 1
    /\ ev' = Searched("timer", Trim(searchQuery), activeLanguage, "")
    /\ UNCHANGED <<booted, activeLanguage, searchQuery, showingFavourites,
                   sinceInput, lastInput, cleared>>
    /\ UNCHANGED <<favVars, playerVars, dialogVars, searchVars, apiVars>>

\* Time passes
Tick ==
    /\ booted
    /\ sinceInput < DEBOUNCE_MS \/ (searchDebounce.armed /\ searchDebounce.left > 0)
    /\ sinceInput' = Min(sinceInput + TickMs, DEBOUNCE_MS)
    /\ searchDebounce' =
          IF searchDebounce.armed
          THEN [searchDebounce EXCEPT !.left = IF @ > TickMs THEN @ - TickMs ELSE 0]
          ELSE searchDebounce
    /\ ev' = Quiet("tick")
    /\ UNCHANGED <<booted, savedApiPool, displayedStations, activeLanguage, searchQuery,
                   showingFavourites, inFlight, playlist, lastInput, burstFired, cleared>>
    /\ UNCHANGED <<favVars, playerVars, dialogVars, searchVars, apiVars>>

\* The rest of runApiSearch, once RadioAPI.search has settled
ApiSearchDone(i, nameRes, tagRes) ==
    /\ i \in 1..Len(inFlight)
    /\ LET r == search(inFlight[i].query, APP_LIMIT, nameRes, tagRes)
       IN displayedStations' = IF r.ok THEN r.value ELSE <<>>
    /\ playlist' = displayedStations'
    /\ inFlight' = [j \in 1..(Len(inFlight) - 1) |->
                       IF j < i THEN inFlight[j] ELSE inFlight[j + 1]]
    /\ ev' = Quiet("done")
    /\ UNCHANGED <<booted, savedApiPool, activeLanguage, searchQuery, showingFavourites,
                   searchDebounce, sinceInput, lastInput, burstFired, cleared>>
    /\ UNCHANGED <<favVars, playerVars, dialogVars, searchVars, apiVars>>

\* The heart button of a displayed card: a favourite is removed, another station
\* is added under the language the dialog gave; then App.updateFavBadge()
CardFavClick(s, lang) ==
    /\ booted
    /\ s \in Range(displayedStations)
    /\ ~isDefault(s.id)
    /\ LET r == IF has(s.id) THEN toggle(s.id, NoStation, Absent) ELSE toggle(s.id, s, lang)
       IN /\ favIds' = r.favIds
          /\ extraMap' = r.extraMap
          /\ localStorage' = r.ls
          /\ IF showingFavourites
             THEN showFavourites(r.extraMap, r.favIds, activeLanguage)
             ELSE UNCHANGED <<savedApiPool, displayedStations, playlist>>
    /\ ev' = Quiet("fav")
    /\ UNCHANGED <<booted, activeLanguage, searchQuery, showingFavourites, searchDebounce,
                   inFlight, sinceInput, lastInput, burstFired, cleared>>
    /\ UNCHANGED <<loaded, nLoads, playerVars, dialogVars, searchVars, apiVars>>

\* The page after its scripts were evaluated on a first visit, before
\* DOMContentLoaded
Init ==
    /\ \E ls \in {EmptyStorage,
                  [EmptyStorage EXCEPT !.ids = Item(<<X>>),
                      !.extra = Item(<<[key |-> X, obj |-> Station(X, "http://x", Absent)]>>)]} :
          LET r == FavoritesModule(ls)
          IN /\ favIds = r.favIds
             /\ extraMap = r.extraMap
             /\ localStorage = r.ls
    /\ loaded = TRUE
    /\ nLoads = 1
    /\ AppInit /\ PlayerInit /\ wakeSupported = FALSE /\ DialogInit /\ ApiInit /\ SearchInit
    /\ ev = Event("init", FALSE, <<>>, "", "", FALSE)

Next ==
    \/ Boot
    \/ \E v \in InputValues : InputEvent(v)
    \/ ClearClick
    \/ HeartClick
    \/ \E tab \in LangTabs : LangTabClick(tab)
    \/ DebounceFire
    \/ Tick
    \/ \E i \in 1..MaxInFlight, n, g \in AppResponses : ApiSearchDone(i, n, g)
    \/ \E s \in Range(displayedStations), l \in DialogLangs : CardFavClick(s, l)

Spec == Init /\ [][Next]_vars

\* C1: favourites is always shown when the search bar is empty. In every state
\* after boot in which the query trims to the empty string, displayedStations
\* and the player's playlist are the favourites list (for the active tab).
C1_FavouritesWhenEmpty ==
    (booted /\ Trim(searchQuery) = <<>>)
       => /\ displayedStations = FavouritesPool(extraMap, favIds, activeLanguage)
          /\ playlist = displayedStations

\* C2: clearing the search bar starts no search. After the clear button or the
\* header heart was clicked, runApiSearch is not invoked until a non-empty
\* query is typed; runApiSearch is never invoked with an empty query.
C2_NoSearchAfterClear ==
    ev.searched => (~cleared /\ ev.query # <<>>)

\* C3: search input is debounced. A burst of input events, each less than
\* 320 ms after the previous one, makes the debounce timer start at most one
\* API search, and that search is made with the (trimmed) text of the last
\* input event.
C3_Debounced ==
    /\ burstFired <= 1
    /\ (ev.type = "timer" /\ ev.searched) => ev.query = Trim(lastInput)

\* C9: language tabs are dual purpose. A tab click in favourites mode displays
\* exactly the favourites whose favLanguage ('other' if absent) is the tab's
\* language (all of them for 'all') and starts no search; a tab click while a
\* non-empty query is active starts a search for the trimmed query with that
\* language as filter (none for 'all') and does not enter favourites mode.
C9_LangTabs ==
    [][ ev'.type = "tab" =>
          /\ showingFavourites =>
               /\ displayedStations' =
                    SelectSeq(getSavedStations,
                              LAMBDA s : ev'.tab = "all" \/ s.favLanguage = ev'.tab)
               /\ playlist' = displayedStations'
               /\ inFlight' = inFlight
               /\ ~ev'.searched
          /\ Trim(searchQuery) # <<>> =>
               /\ inFlight' = Append(inFlight,
                     [query |-> Trim(searchQuery),
                      language |-> IF ev'.tab = "all" THEN "" ELSE ev'.tab])
               /\ ev'.searched /\ ev'.query = Trim(searchQuery)
               /\ ~showingFavourites'
               /\ UNCHANGED displayedStations ]_vars

\* A tab was clicked in favourites mode with a favourite saved by the user under
\* that language next to the default of that language
C9_Witness ==
    /\ ev.type = "tab" /\ ev.wasFav /\ ev.tab = "German"
    /\ Len(displayedStations) = 2
    /\ Len(getSavedStations) = 5

(***************************************************************************)
(* SpecPlayer: player.js, the playback attempts of play() and togglePlay() *)
(*                                                                         *)
(* The audio element is the environment.  A pending play() promise is      *)
(* settled at any time; its then/catch handler runs in the same step (a    *)
(* microtask of the settling task).  A promise is fulfilled by the steps   *)
(* that fire the element's 'playing' event, so the 'playing' handler runs  *)
(* in that step as well.  'waiting', 'stalled' and 'error' are delivered   *)
(* only while the stream plays or an attempt is pending.                   *)
(***************************************************************************)
MAX_RETRIES == 2

\* Bounds of the player model
MaxPlays   == 2     \* play() calls
MaxToggles == 1     \* togglePlay() calls that resume

PlayerStations ==
    {Station("api-a", "http://a", Absent), Station("api-n", "", Absent)}

Attempt(kind, call) == [kind |-> kind, call |-> call]

MaxLocks == 2       \* wake-lock requests the browser grants; it denies the others

\* requestWakeLock() called n times in one handler, up to the await: without
\* the Wake Lock API it returns at once; a request beyond MaxLocks is denied
requestWakeLock(n) ==
    /\ wakeRequests' = IF wakeSupported
                       THEN Min(wakeRequests + n, MaxLocks - Len(sentinels))
                       ELSE wakeRequests
    /\ UNCHANGED <<wakeSupported, wakeLock, sentinels, visible>>

\* releaseWakeLock(): release() on the sentinel in _wakeLock, then _wakeLock = null
releaseWakeLock ==
    /\ wakeLock' = 0
    /\ sentinels' = IF wakeLock # 0 /\ sentinels[wakeLock] = "held"
                    THEN [sentinels EXCEPT ![wakeLock] = "releasing"]
                    ELSE sentinels
    /\ UNCHANGED <<wakeSupported, wakeRequests, visible>>

\* Player.play(station)
Play(station) ==
    /\ nPlays < MaxPlays
    /\ IF station = NoStation \/ station.url = ""
       THEN /\ ev' = [type |-> "play-ignored", call |-> 0]
            /\ UNCHANGED playerVars
       ELSE /\ currentStation' = station
            /\ isPlaying' = FALSE
            /\ retryCount' = 0
            /\ status' = "loading"
            \* audio.src = station.url: the element loads the new stream
            /\ streaming' = FALSE
            \* audio.play(), with its then and catch handlers
            /\ attempts' = attempts \cup {Attempt("play", nPlays + 1)}
            /\ nPlays' = nPlays + 1
            /\ nAttempts' = Append(nAttempts, 1)
            /\ started' = FALSE
            /\ ev' = [type |-> "play", call |-> nPlays + 1]
            /\ UNCHANGED <<retryTimers, pauseEvent, nToggles, wakeVars>>
    /\ UNCHANGED <<favVars, appVars, dialogVars, searchVars, apiVars>>

\* togglePlay(): the play button, the space key, the media-session handlers
TogglePlay ==
    /\ currentStation # NoStation
    /\ IF isPlaying
       THEN \* audio.pause()
            /\ pauseEvent' = (pauseEvent \/ streaming)
            /\ streaming' = FALSE
            /\ isPlaying' = FALSE
            /\ status' = "idle"
            /\ releaseWakeLock
            /\ ev' = [type |-> "pause", call |-> 0]
            /\ UNCHANGED <<attempts, nToggles>>
       ELSE \* audio.src is set: audio.play(), with its then and catch handlers
            /\ nToggles < MaxToggles
            /\ status' = "loading"
            /\ attempts' = attempts \cup {Attempt("toggle", nToggles + 1)}
            /\ nToggles' = nToggles + 1
            /\ ev' = [type |-> "resume", call |-> 0]
            /\ UNCHANGED <<isPlaying, streaming, pauseEvent, wakeVars>>
    /\ UNCHANGED <<currentStation, retryCount, retryTimers, nPlays, nAttempts, started>>
    /\ UNCHANGED <<favVars, appVars, dialogVars, searchVars, apiVars>>

\* The stream starts: the 'playing' handler and, for play() and togglePlay(),
\* the then handler of the promise
AttemptFulfilled(a) ==
    /\ a \in attempts
    /\ attempts' = attempts \ {a}
    /\ streaming' = TRUE
    /\ isPlaying' = TRUE
    /\ status' = "live"
    /\ started' = TRUE
    /\ ev' = [type |-> "fulfilled", call |-> a.call]
    /\ UNCHANGED <<currentStation, retryCount, retryTimers, pauseEvent,
                   nPlays, nToggles, nAttempts>>
    \* requestWakeLock() of the 'playing' handler and of the then handler
    /\ requestWakeLock(IF a.kind = "retry" THEN 1 ELSE 2)
    /\ UNCHANGED <<favVars, appVars, dialogVars, searchVars, apiVars>>

\* A play() promise is rejected: the catch handler of its kind
\* mutant: the catch handler of the retry does not report the error
AttemptRejected_SilentRetry(a) ==
    /\ a \in attempts
    /\ attempts' = attempts \ {a}
    /\ IF a.kind = "play" /\ retryCount < MAX_RETRIES
       THEN /\ retryCount' = retryCount + 1
            /\ retryTimers' = retryTimers \cup {a.call}
            /\ UNCHANGED status
       ELSE /\ status' = IF a.kind = "retry" THEN status ELSE "error"
            /\ UNCHANGED <<retryCount, retryTimers>>
    /\ ev' = [type |-> "rejected", call |-> a.call]
    /\ UNCHANGED <<currentStation, isPlaying, streaming, pauseEvent,
                   nPlays, nToggles, nAttempts, started>>
    /\ UNCHANGED wakeVars
    /\ UNCHANGED <<favVars, appVars, dialogVars, searchVars, apiVars>>

AttemptRejected(a) ==
    /\ a \in attempts
    /\ attempts' = attempts \ {a}
    /\ IF a.kind = "play" /\ retryCount < MAX_RETRIES
       THEN \* _retryCount++; setTimeout(() => audio.play().catch(...), 1500)
            /\ retryCount' = retryCount + 1
            /\ retryTimers' = retryTimers \cup {a.call}
            /\ UNCHANGED status
       ELSE \* setStatus('error'): play() out of retries, a retry, togglePlay()
            /\ status' = "error"
            /\ UNCHANGED <<retryCount, retryTimers>>
    /\ ev' = [type |-> "rejected", call |-> a.call]
    /\ UNCHANGED <<currentStation, isPlaying, streaming, pauseEvent,
                   nPlays, nToggles, nAttempts, started>>
    /\ UNCHANGED wakeVars
    /\ UNCHANGED <<favVars, appVars, dialogVars, searchVars, apiVars>>

\* The retry timer of play() call c fires: audio.play().catch(() => setStatus('error'))
RetryFire(c) ==
    /\ c \in retryTimers
    /\ retryTimers' = retryTimers \ {c}
    /\ attempts' = attempts \cup {Attempt("retry", c)}
    /\ nAttempts' = [nAttempts EXCEPT ![c] = @ + 1]
    /\ ev' = [type |-> "retry", call |-> c]
    /\ UNCHANGED <<currentStation, isPlaying, retryCount, status, streaming,
                   pauseEvent, nPlays, nToggles, started>>
    /\ UNCHANGED wakeVars
    /\ UNCHANGED <<favVars, appVars, dialogVars, searchVars, apiVars>>

\* audio 'waiting'
OnWaiting ==
    /\ streaming \/ attempts # {}
    /\ status' = "loading"
    /\ ev' = [type |-> "waiting", call |-> 0]
    /\ UNCHANGED <<currentStation, isPlaying, retryCount, attempts, retryTimers,
                   streaming, pauseEvent, nPlays, nToggles, nAttempts, started>>
    /\ UNCHANGED wakeVars
    /\ UNCHANGED <<favVars, appVars, dialogVars, searchVars, apiVars>>

\* audio 'stalled'
OnStalled ==
    /\ streaming \/ attempts # {}
    /\ status' = "loading"
    /\ ev' = [type |-> "stalled", call |-> 0]
    /\ UNCHANGED <<currentStation, isPlaying, retryCount, attempts, retryTimers,
                   streaming, pauseEvent, nPlays, nToggles, nAttempts, started>>
    /\ UNCHANGED wakeVars
    /\ UNCHANGED <<favVars, appVars, dialogVars, searchVars, apiVars>>

\* audio 'playing', after the stream had to wait for data
OnPlaying ==
    /\ streaming
    /\ isPlaying' = TRUE
    /\ status' = "live"
    /\ ev' = [type |-> "playing", call |-> 0]
    /\ UNCHANGED <<currentStation, retryCount, attempts, retryTimers,
                   streaming, pauseEvent, nPlays, nToggles, nAttempts, started>>
    /\ requestWakeLock(1)
    /\ UNCHANGED <<favVars, appVars, dialogVars, searchVars, apiVars>>

\* The element is paused from outside the page; its 'pause' event is queued
ExternalPause ==
    /\ streaming
    /\ streaming' = FALSE
    /\ pauseEvent' = TRUE
    /\ ev' = [type |-> "paused", call |-> 0]
    /\ UNCHANGED <<currentStation, isPlaying, retryCount, status, attempts, retryTimers,
                   nPlays, nToggles, nAttempts, started>>
    /\ UNCHANGED wakeVars
    /\ UNCHANGED <<favVars, appVars, dialogVars, searchVars, apiVars>>

\* audio 'pause'
OnPause ==
    /\ pauseEvent
    /\ pauseEvent' = FALSE
    /\ isPlaying' = FALSE
    /\ ev' = [type |-> "pause-event", call |-> 0]
    /\ UNCHANGED <<currentStation, retryCount, status, attempts, retryTimers,
                   streaming, nPlays, nToggles, nAttempts, started>>
    /\ releaseWakeLock
    /\ UNCHANGED <<favVars, appVars, dialogVars, searchVars, apiVars>>

\* audio 'error'
OnError ==
    /\ streaming \/ attempts # {}
    /\ status' = "error"
    /\ isPlaying' = FALSE
    /\ streaming' = FALSE
    /\ ev' = [type |-> "error", call |-> 0]
    /\ UNCHANGED <<currentStation, retryCount, attempts, retryTimers,
                   pauseEvent, nPlays, nToggles, nAttempts, started>>
    /\ releaseWakeLock
    /\ UNCHANGED <<favVars, appVars, dialogVars, searchVars, apiVars>>

\* A browser without the Screen Wake Lock API
InitPlayer ==
    /\ FavInit /\ localStorage = EmptyStorage
    /\ AppInit /\ PlayerInit /\ wakeSupported = FALSE /\ DialogInit /\ ApiInit /\ SearchInit
    /\ ev = [type |-> "init", call |-> 0]

Settle == \E a \in attempts : AttemptFulfilled(a) \/ AttemptRejected(a)

Timeout == \E c \in retryTimers : RetryFire(c)

NextPlayer ==
    \/ \E s \in PlayerStations : Play(s)
    \/ TogglePlay
    \/ Settle
    \/ Timeout
    \/ OnWaiting
    \/ OnStalled
    \/ OnPlaying
    \/ ExternalPause
    \/ OnPause
    \/ OnError

SpecPlayer == InitPlayer /\ [][NextPlayer]_vars

\* The browser settles every play() promise, fires every timer and delivers
\* every queued event
SpecPlayerLive ==
    /\ SpecPlayer
    /\ WF_vars(Settle)
    /\ WF_vars(Timeout)
    /\ WF_vars(OnPause)

\* No attempt is pending and no retry is scheduled
AtRest == attempts = {} /\ retryTimers = {}

\* C7: bounded retry-and-give-up. Every play() call causes at most
\* 1 + MAX_RETRIES calls of audio.play(); an attempt that succeeds leaves the
\* player with status 'live' and _isPlaying true; and without further user
\* action the player comes to rest, no attempt pending and none scheduled,
\* showing 'error' if the stream has not started since the last play().
C7_BoundedRetry ==
    /\ [](\A c \in 1..Len(nAttempts) : nAttempts[c] <= 1 + MAX_RETRIES)
    /\ [](ev.type = "fulfilled" => (status = "live" /\ isPlaying))
    /\ <>[](AtRest /\ ((nPlays > 0 /\ ~started) => status = "error"))

\* A play() call whose first attempt and whose retry both failed
C7_Witness ==
    /\ AtRest /\ nPlays = 1 /\ ~started
    /\ nAttempts[1] = 2
    /\ status = "error"
    /\ ev.type = "rejected"

(***************************************************************************)
(* SpecDialog: dialog.js, the promise-based language picker                *)
(***************************************************************************)
MaxShows == 3       \* calls of FavDialog.show

\* The value a cancelled dialog resolves to
Null == "null"

Pending == [st |-> "pending", value |-> Null, calls |-> 0]

\* FavDialog.show(stationName)
Show ==
    /\ Len(promises) < MaxShows
    /\ promises' = Append(promises, Pending)
    /\ dlgResolve' = Len(promises) + 1
    /\ modalHidden' = FALSE
    /\ ev' = [type |-> "show", value |-> Null]
    /\ UNCHANGED <<favVars, appVars, playerVars, searchVars, apiVars>>

\* close(lang): hide the modal and resolve the promise _resolve belongs to
close(lang) ==
    /\ modalHidden' = TRUE
    /\ IF dlgResolve # 0
       THEN /\ promises' = [promises EXCEPT ![dlgResolve] =
                   [st    |-> "resolved",
                    value |-> IF @.st = "pending" THEN lang ELSE @.value,
                    calls |-> @.calls + 1]]
            /\ dlgResolve' = 0
       ELSE UNCHANGED <<promises, dlgResolve>>

\* Click on a language option of the open modal
OptionClick(lang) ==
    /\ ~modalHidden
    /\ close(lang)
    /\ ev' = [type |-> "option", value |-> lang]
    /\ UNCHANGED <<favVars, appVars, playerVars, searchVars, apiVars>>

\* Click on the Cancel button
CancelClick ==
    /\ ~modalHidden
    /\ close(Null)
    /\ ev' = [type |-> "cancel", value |-> Null]
    /\ UNCHANGED <<favVars, appVars, playerVars, searchVars, apiVars>>

\* Click on the overlay backdrop
OverlayClick ==
    /\ ~modalHidden
    /\ close(Null)
    /\ ev' = [type |-> "overlay", value |-> Null]
    /\ UNCHANGED <<favVars, appVars, playerVars, searchVars, apiVars>>

\* keydown Escape: closes only while the modal is open
EscapeKey ==
    /\ IF ~modalHidden
       THEN close(Null)
       ELSE UNCHANGED <<modalHidden, promises, dlgResolve>>
    /\ ev' = [type |-> "escape", value |-> Null]
    /\ UNCHANGED <<favVars, appVars, playerVars, searchVars, apiVars>>

InitDialog ==
    /\ FavInit /\ localStorage = EmptyStorage
    /\ AppInit /\ PlayerInit /\ wakeSupported = FALSE /\ DialogInit /\ ApiInit /\ SearchInit
    /\ ev = [type |-> "init", value |-> Null]

NextDialog ==
    \/ Show
    \/ \E lang \in {"Russian", "English", "German", "other"} : OptionClick(lang)
    \/ CancelClick
    \/ OverlayClick
    \/ EscapeKey

SpecDialog == InitDialog /\ [][NextDialog]_vars

\* C8: show resolves to the chosen language or null. No promise is resolved
\* twice, a close action resolves with the clicked option's language or with
\* null, and once the dialog is closed no promise show() returned is pending.
C8_EveryShowResolved ==
    /\ \A i \in 1..Len(promises) : promises[i].calls <= 1
    /\ \A i \in 1..Len(promises) :
          (ev.type \in {"option", "cancel", "overlay"} /\ i = Len(promises))
             => promises[i] = [st |-> "resolved", value |-> ev.value, calls |-> 1]
    /\ modalHidden => \A i \in 1..Len(promises) : promises[i].st = "resolved"

(***************************************************************************)
(* SpecSearch: RadioAPI.search applied to the responses of the directory   *)
(***************************************************************************)
MaxLimit == 2       \* the limit argument of search()

\* The x station is listed twice, with different URLs; a station has a
\* stream URL in every listing of it or in none
SearchRaw ==
    {Raw("x", "http://x", ""), Raw("x", "", "http://x2"),
     Raw("y", "", "http://y"), Raw("z", "", "")}

SearchQueries == {<<>>, <<" ">>, <<"a">>, <<"a", " ">>}

\* The server returns at most `limit` stations to a request
ResponsesUpTo(limit) == {Rejected} \cup {Fulfilled(v) : v \in SeqsUpTo(SearchRaw, limit)}

InitSearch ==
    /\ FavInit /\ localStorage = EmptyStorage
    /\ AppInit /\ PlayerInit /\ wakeSupported = FALSE /\ DialogInit /\ ApiInit
    /\ sQuery \in SearchQueries
    /\ sLimit \in 1..MaxLimit
    /\ sNameRes \in ResponsesUpTo(sLimit)
    /\ sTagRes \in ResponsesUpTo(sLimit)
    /\ sResult = Rejected
    /\ sDone = FALSE
    /\ ev = [type |-> "init"]

\* RadioAPI.search({ query, limit }) returns or throws
RunSearch ==
    /\ ~sDone
    /\ sResult' = search(sQuery, sLimit, sNameRes, sTagRes)
    /\ sDone' = TRUE
    /\ ev' = [type |-> "search"]
    /\ UNCHANGED <<sQuery, sLimit, sNameRes, sTagRes>>
    /\ UNCHANGED <<favVars, appVars, playerVars, dialogVars, apiVars>>

NextSearch == RunSearch

SpecSearch == InitSearch /\ [][NextSearch]_vars

\* C10: search returns at most `limit` stations, for every query and every
\* pair of responses of at most `limit` stations each.
C10_AtMostLimit ==
    (sDone /\ sResult.ok) => Len(sResult.value) <= sLimit

\* The stationuuids of a response, in its order
Uuids(resp) == [i \in 1..Len(resp) |-> resp[i].stationuuid]

\* The stations a settled request contributed: none when it was rejected
Listed(res) == IF res.ok THEN res.value ELSE <<>>

\* The stationuuids that a response lists with a stream URL
WithUrl(resp) ==
    {resp[i].stationuuid : i \in {j \in 1..Len(resp) :
                                     resp[j].url_resolved # "" \/ resp[j].url # ""}}

\* The position of an id in a list of ids without duplicates (0: not in it)
IndexOf(ids, id) ==
    IF \E i \in 1..Len(ids) : ids[i] = id
    THEN CHOOSE i \in 1..Len(ids) : ids[i] = id
    ELSE 0

OtherTabStations == {Station(X, "http://x", Absent), Station(Y, "http://y", Absent)}

\* The card fav button of station s clicked in another tab, with the dialog
\* answered lang: that tab evaluated favorites.js on the storage as it is, and
\* its toggle saves its own favIds and extraMap.  This tab's memory is untouched.
OtherTabToggle(s, lang) ==
    /\ booted
    /\ LET m   == FavoritesModule(localStorage)
           isFav == SetHas(m.favIds, s.id)
           ids == IF isFav THEN SetDelete(m.favIds, s.id) ELSE SetAdd(m.favIds, s.id)
           map == IF isFav
                  THEN MapDelete(m.extraMap, s.id)
                  ELSE MapPut(m.extraMap, s.id, [s EXCEPT !.favLanguage = lang])
           l1  == IF isFav /\ ~MapHas(m.extraMap, s.id) THEN m.ls ELSE saveExtra(m.ls, map)
       IN localStorage' = saveIds(l1, ids)
    /\ ev' = Quiet("othertab")
    /\ UNCHANGED <<loaded, favIds, extraMap, nLoads>>
    /\ UNCHANGED <<appVars, playerVars, dialogVars, searchVars, apiVars>>

NextTabs ==
    \/ Boot
    \/ HeartClick
    \/ \E tab \in LangTabs : LangTabClick(tab)
    \/ \E s \in Range(displayedStations), l \in DialogLangs : CardFavClick(s, l)
    \/ \E s \in OtherTabStations, l \in DialogLangs : OtherTabToggle(s, l)

SpecTabs == Init /\ [][NextTabs]_vars

\* C12: showFavourites refreshes its pool from localStorage. After a handler
\* of this tab that calls showFavourites (boot, the header heart, a language
\* tab in favourites mode), the displayed list is the favourites as they are
\* stored in localStorage, whatever another tab wrote there.
C12_ShowsStoredFavourites ==
    (ev.type \in {"boot", "heart"} \/ (ev.type = "tab" /\ ev.wasFav))
       => displayedStations =
             FavouritesPool(loadExtra(localStorage), loadIds(localStorage), activeLanguage)

(***************************************************************************)
(* SpecApiInit: RadioAPI.init picks a server while get() sends requests    *)
(***************************************************************************)
MaxGets == 2        \* calls of get() while and after init() runs

\* How a stats request settles: an OK response, a response that is not OK,
\* or a rejection (network error, the 4000 ms timeout)
StatsOutcomes == {"ok", "notok", "throw"}

\* init() is called: the loop sends the stats request to the first server
InitCall ==
    /\ initState = "idle"
    /\ initState' = "running"
    /\ initPos' = 1
    /\ contacted' = <<SERVERS[1]>>
    /\ ev' = [type |-> "init"]
    /\ UNCHANGED <<baseUrl, outcomes, getUrls>>
    /\ UNCHANGED <<favVars, appVars, playerVars, dialogVars, searchVars>>

\* mutant: an OK response sets baseUrl but the loop goes on to the next server
StatsSettled_NoReturn(outcome) ==
    /\ initState = "running"
    /\ outcomes' = Append(outcomes, outcome)
    /\ baseUrl' = IF outcome = "ok" THEN SERVERS[initPos] ELSE baseUrl
    /\ IF initPos < Len(SERVERS)
       THEN /\ initPos' = initPos + 1
            /\ contacted' = Append(contacted, SERVERS[initPos + 1])
            /\ UNCHANGED initState
       ELSE /\ initState' = "done"
            /\ UNCHANGED <<initPos, contacted>>
    /\ ev' = [type |-> "stats"]
    /\ UNCHANGED getUrls
    /\ UNCHANGED <<favVars, appVars, playerVars, dialogVars, searchVars>>

\* The awaited fetch of the stats request settles and init() continues: an OK
\* response sets baseUrl and returns; otherwise the loop goes on to the next
\* server, and after the last one init() warns and returns
StatsSettled(outcome) ==
    /\ initState = "running"
    /\ outcomes' = Append(outcomes, outcome)
    /\ IF outcome = "ok"
       THEN /\ baseUrl' = SERVERS[initPos]
            /\ initState' = "done"
            /\ UNCHANGED <<initPos, contacted>>
       ELSE /\ UNCHANGED baseUrl
            /\ IF initPos < Len(SERVERS)
               THEN /\ initPos' = initPos + 1
                    /\ contacted' = Append(contacted, SERVERS[initPos + 1])
                    /\ UNCHANGED initState
               ELSE /\ initState' = "done"
                    /\ UNCHANGED <<initPos, contacted>>
    /\ ev' = [type |-> "stats"]
    /\ UNCHANGED getUrls
    /\ UNCHANGED <<favVars, appVars, playerVars, dialogVars, searchVars>>

\* get(path, params) builds its URL from the baseUrl of the moment
Get ==
    /\ Len(getUrls) < MaxGets
    /\ getUrls' = Append(getUrls, baseUrl)
    /\ ev' = [type |-> "get"]
    /\ UNCHANGED <<baseUrl, initState, initPos, contacted, outcomes>>
    /\ UNCHANGED <<favVars, appVars, playerVars, dialogVars, searchVars>>

InitApiInit ==
    /\ FavInit /\ localStorage = EmptyStorage
    /\ AppInit /\ PlayerInit /\ wakeSupported = FALSE /\ DialogInit /\ ApiInit /\ SearchInit
    /\ ev = [type |-> "none"]

NextApiInit ==
    \/ InitCall
    \/ \E o \in StatsOutcomes : StatsSettled(o)
    \/ Get

SpecApiInit == InitApiInit /\ [][NextApiInit]_vars

\* The indices of the stats requests that got an OK response
OkAt == {i \in 1..Len(outcomes) : outcomes[i] = "ok"}

\* C13: init never rejects; the servers are contacted in list order; when it
\* has completed, baseUrl is the first server that answered OK and no server
\* after that one was contacted, or the default SERVERS[0] if none answered OK.
C13_FirstResponding ==
    /\ initState # "rejected"
    /\ contacted = SubSeq(SERVERS, 1, Len(contacted))
    /\ initState = "done" =>
          /\ Len(outcomes) = Len(contacted)
          /\ IF OkAt # {}
             THEN \E k \in OkAt :
                     /\ \A i \in OkAt : k <= i
                     /\ baseUrl = SERVERS[k]
                     /\ Len(contacted) = k
             ELSE /\ baseUrl = SERVERS[1]
                  /\ contacted = SERVERS

\* init completed on the second server after the first one failed
C13_Witness ==
    /\ initState = "done"
    /\ outcomes \in {<<"throw", "ok">>, <<"notok", "ok">>}
    /\ baseUrl = SERVERS[2]

(***************************************************************************)
(* SpecWake: the player in a browser with the Screen Wake Lock API         *)
(***************************************************************************)
\* navigator.wakeLock.request('screen') resolves: the continuation of
\* requestWakeLock() stores the sentinel and adds its 'release' listener
WakeGranted ==
    /\ wakeRequests > 0
    /\ visible
    /\ wakeRequests' = wakeRequests - 1
    /\ sentinels' = Append(sentinels, "held")
    /\ wakeLock' = Len(sentinels) + 1
    /\ ev' = [type |-> "wake-granted", call |-> 0]
    /\ UNCHANGED <<wakeSupported, visible>>
    /\ UNCHANGED <<currentStation, isPlaying, retryCount, status, attempts, retryTimers,
                   streaming, pauseEvent, nPlays, nToggles, nAttempts, started>>
    /\ UNCHANGED <<favVars, appVars, dialogVars, searchVars, apiVars>>

\* The request rejects (permission denied, page hidden): caught and ignored
WakeDenied ==
    /\ wakeRequests > 0
    /\ wakeRequests' = wakeRequests - 1
    /\ ev' = [type |-> "wake-denied", call |-> 0]
    /\ UNCHANGED <<wakeSupported, wakeLock, sentinels, visible>>
    /\ UNCHANGED <<currentStation, isPlaying, retryCount, status, attempts, retryTimers,
                   streaming, pauseEvent, nPlays, nToggles, nAttempts, started>>
    /\ UNCHANGED <<favVars, appVars, dialogVars, searchVars, apiVars>>

\* The 'release' event of sentinel i: its listener sets _wakeLock = null
SentinelRelease(i) ==
    /\ i \in 1..Len(sentinels)
    /\ sentinels[i] = "releasing"
    /\ sentinels' = [sentinels EXCEPT ![i] = "released"]
    /\ wakeLock' = 0
    /\ ev' = [type |-> "wake-release", call |-> 0]
    /\ UNCHANGED <<wakeSupported, wakeRequests, visible>>
    /\ UNCHANGED <<currentStation, isPlaying, retryCount, status, attempts, retryTimers,
                   streaming, pauseEvent, nPlays, nToggles, nAttempts, started>>
    /\ UNCHANGED <<favVars, appVars, dialogVars, searchVars, apiVars>>

\* The page is hidden: the browser releases every wake lock of the page; the
\* visibilitychange listener does nothing
VisibilityHidden ==
    /\ visible
    /\ visible' = FALSE
    /\ sentinels' = [i \in 1..Len(sentinels) |->
                        IF sentinels[i] = "held" THEN "releasing" ELSE sentinels[i]]
    /\ ev' = [type |-> "hidden", call |-> 0]
    /\ UNCHANGED <<wakeSupported, wakeLock, wakeRequests>>
    /\ UNCHANGED <<currentStation, isPlaying, retryCount, status, attempts, retryTimers,
                   streaming, pauseEvent, nPlays, nToggles, nAttempts, started>>
    /\ UNCHANGED <<favVars, appVars, dialogVars, searchVars, apiVars>>

\* The page becomes visible: re-acquire while playing without a lock
VisibilityVisible ==
    /\ ~visible
    /\ visible' = TRUE
    /\ IF isPlaying /\ wakeLock = 0
       THEN /\ wakeRequests' = IF wakeSupported
                               THEN Min(wakeRequests + 1, MaxLocks - Len(sentinels))
                               ELSE wakeRequests
            /\ UNCHANGED <<wakeSupported, wakeLock, sentinels>>
       ELSE UNCHANGED <<wakeSupported, wakeLock, wakeRequests, sentinels>>
    /\ ev' = [type |-> "visible", call |-> 0]
    /\ UNCHANGED <<currentStation, isPlaying, retryCount, status, attempts, retryTimers,
                   streaming, pauseEvent, nPlays, nToggles, nAttempts, started>>
    /\ UNCHANGED <<favVars, appVars, dialogVars, searchVars, apiVars>>

InitWake ==
    /\ FavInit /\ localStorage = EmptyStorage
    /\ AppInit /\ PlayerInit /\ wakeSupported = TRUE /\ DialogInit /\ ApiInit /\ SearchInit
    /\ ev = [type |-> "init", call |-> 0]

NextWake ==
    \/ NextPlayer
    \/ WakeGranted
    \/ WakeDenied
    \/ \E i \in 1..MaxLocks : SentinelRelease(i)
    \/ VisibilityHidden
    \/ VisibilityVisible

SpecWake == InitWake /\ [][NextWake]_vars

\* C14: the wake lock is held only while playing. Whenever playback is not
\* playing and no wake-lock request is pending, no sentinel the player
\* acquired is still held.
C14_HeldOnlyWhilePlaying ==
    (~isPlaying /\ wakeRequests = 0)
       => \A i \in 1..Len(sentinels) : sentinels[i] # "held"

====
